---- MODULE Spec2Model ----
(***************************************************************************)
(* Flowchart Collaborator: the FlowchartEditor model (diagram data, id     *)
(* counters, pending connection, load/export) and the part of              *)
(* FlowchartCanvas it drives (the node and connection elements drawn, the  *)
(* selection, the viewport transform, the path of an edge).                *)
(* Source: src/unnamed/part_002.                                           *)
(*                                                                         *)
(* An id is the record [pre, n] standing for the string "<pre>-<n>";       *)
(* NoId stands for a missing (undefined) id.  A JavaScript array is a      *)
(* sequence.  A call that throws is an action whose lastOp.threw is TRUE   *)
(* and whose effect is what the code did before the throw.                 *)
(***************************************************************************)
EXTENDS Integers, Sequences, FiniteSets, TLC

VARIABLES
    data,                  \* FlowchartEditor.data
    nextNodeId,            \* FlowchartEditor.nextNodeId
    nextConnectionId,      \* FlowchartEditor.nextConnectionId
    nextQuestionId,        \* FlowchartEditor.nextQuestionId
    connectionInProgress,  \* FlowchartEditor.connectionInProgress
    canvasPending,         \* FlowchartCanvas.connectionInProgress: the id of its fromNode
    previewLines,          \* the number of 'connection-preview' lines on the svg
    currentMode,           \* window.currentMode
    selectedNodeType,      \* window.selectedNodeType
    nodesGroup,            \* FlowchartCanvas.nodesGroup: data-node-id of each node element
    connectionsGroup,      \* FlowchartCanvas.connectionsGroup: data-connection-id of each element
    selectedElement,       \* FlowchartEditor.selectedElement: kind and id of the copied element
    canvasSelected,        \* FlowchartCanvas.selectedElement
    selectedMarks,         \* the elements of the two groups that carry the class 'selected'
    transform,             \* the zoom transform of the svg: scale k and translation (x, y)
    lastPath,              \* the last call of calculateConnectionPath: its nodes, its end points
    payload,               \* the object last returned to the caller by exportToJSON
    payloadState,          \* "none" | "own" (independent object) | "alias" (it is this.data)
    lastOp                 \* the call just made: name, id argument, outcome

vars == <<data, nextNodeId, nextConnectionId, nextQuestionId, connectionInProgress,
          canvasPending, previewLines,
          currentMode, selectedNodeType, nodesGroup, connectionsGroup,
          selectedElement, canvasSelected, selectedMarks, transform, lastPath,
          payload, payloadState, lastOp>>

counterVars == <<nextNodeId, nextConnectionId, nextQuestionId>>
uiVars == <<currentMode, selectedNodeType>>
canvasVars == <<nodesGroup, connectionsGroup>>
selectionVars == <<selectedElement, canvasSelected, selectedMarks>>
viewVars == <<transform, lastPath>>
drawVars == <<canvasPending, previewLines>>

(***************************************************************************)
(* Bounds of the model.                                                    *)
(***************************************************************************)
MaxNodeId == 3
MaxConnectionId == 2
MaxTime == 1
MaxLoad == 2
MaxPan == 100
MaxPreviewLines == 2

(***************************************************************************)
(* Ids.                                                                    *)
(***************************************************************************)
MakeId(pre, n) == [pre |-> pre, n |-> n]
NoId == [pre |-> "undefined", n |-> 0]
NodeIdOf(n) == MakeId("node", n)
ConnectionIdOf(n) == MakeId("conn", n)
QuestionIdOf(n) == MakeId("q", n)

\* n.id.match(/<pre>-(\d+)/) followed by `match ? parseInt(match[1]) : 0`
MatchNumber(id, pre) == IF id.pre = pre THEN id.n ELSE 0

\* the trailing number of an id, whatever its prefix
NumericSuffix(id) == id.n

(***************************************************************************)
(* Sequence helpers (Array.prototype.filter / find / map / Math.max).      *)
(***************************************************************************)
Filter(s, keep(_)) == SelectSeq(s, keep)

Indices(s, test(_)) == {i \in 1..Len(s) : test(s[i])}

Min(S) == CHOOSE m \in S : \A k \in S : m <= k

\* Math.max(0, ...xs)
MaxOf0(S) == CHOOSE m \in S \cup {0} : \A k \in S \cup {0} : k <= m

(***************************************************************************)
(* Numbers.  A JavaScript number is the rational [n, d] in lowest terms    *)
(* with d > 0; NaN is the result of 0 / 0 and spreads through every        *)
(* operation; Inexact is a value of Math.cos or Math.sin that is no        *)
(* rational.                                                               *)
(***************************************************************************)
Abs(n) == IF n < 0 THEN -n ELSE n

RECURSIVE GCD(_, _)
GCD(a, b) == IF b = 0 THEN a ELSE GCD(b, a % b)

NaN == [n |-> 0, d |-> 0]
Inexact == [n |-> 0, d |-> -1]

IsNumber(a) == a.d > 0

\* n / d for integers n and d
Rat(n, d) ==
    IF d = 0 THEN NaN
    ELSE LET g == GCD(Abs(n), Abs(d))
             sign == IF d < 0 THEN -1 ELSE 1
         IN [n |-> (sign * n) \div g, d |-> (sign * d) \div g]

R(n) == [n |-> n, d |-> 1]

RAdd(a, b) == IF IsNumber(a) /\ IsNumber(b) THEN Rat(a.n * b.d + b.n * a.d, a.d * b.d) ELSE NaN
RSub(a, b) == IF IsNumber(a) /\ IsNumber(b) THEN Rat(a.n * b.d - b.n * a.d, a.d * b.d) ELSE NaN
RMul(a, b) == IF IsNumber(a) /\ IsNumber(b) THEN Rat(a.n * b.n, a.d * b.d) ELSE NaN
RDiv(a, b) == IF IsNumber(a) /\ IsNumber(b) THEN Rat(a.n * b.d, a.d * b.n) ELSE NaN
RAbs(a) == IF IsNumber(a) THEN [n |-> Abs(a.n), d |-> a.d] ELSE NaN

\* a < b and a <= b; a comparison with NaN is false
RLess(a, b) == IsNumber(a) /\ IsNumber(b) /\ a.n * b.d < b.n * a.d
RLessEq(a, b) == IsNumber(a) /\ IsNumber(b) /\ a.n * b.d <= b.n * a.d

\* Math.min and Math.max of two numbers
RMin(a, b) == IF ~IsNumber(a) \/ ~IsNumber(b) THEN NaN ELSE IF RLess(b, a) THEN b ELSE a
RMax(a, b) == IF ~IsNumber(a) \/ ~IsNumber(b) THEN NaN ELSE IF RLess(a, b) THEN b ELSE a

Point(x, y) == [x |-> x, y |-> y]

(***************************************************************************)
(* Node defaults.                                                          *)
(***************************************************************************)
getDefaultNodeText(type) ==
    CASE type = "start" -> "Start"
      [] type = "process" -> "Process"
      [] type = "decision" -> "Decision?"
      [] type = "end" -> "End"
      [] type = "connector" -> "Node"   \* defaults.connector is '' and '' || 'Node' is 'Node'
      [] OTHER -> "Node"

getDefaultNodeSize(type) ==
    CASE type = "start" -> [width |-> 100, height |-> 60]
      [] type = "process" -> [width |-> 120, height |-> 60]
      [] type = "decision" -> [width |-> 100, height |-> 80]
      [] type = "end" -> [width |-> 100, height |-> 60]
      [] type = "connector" -> [width |-> 30, height |-> 30]
      [] OTHER -> [width |-> 120, height |-> 60]

getDefaultNodeColor(type) ==
    CASE type = "start" -> "#e8f5e8"
      [] type = "process" -> "#e3f2fd"
      [] type = "decision" -> "#fff3e0"
      [] type = "end" -> "#fce4ec"
      [] type = "connector" -> "#f5f5f5"
      [] OTHER -> "#e3f2fd"

\* the nodeData literal of addNode
NewNode(id, type, x, y) ==
    [id |-> id, type |-> type, text |-> getDefaultNodeText(type),
     x |-> x, y |-> y,
     width |-> getDefaultNodeSize(type).width,
     height |-> getDefaultNodeSize(type).height,
     style |-> [backgroundColor |-> getDefaultNodeColor(type),
                borderColor |-> "#1976d2", textColor |-> "#000"],
     metadata |-> [category |-> "core", priority |-> "medium",
                   status |-> "pending", note |-> ""]]

\* the connectionData literal of addConnection
NewConnection(id, from, to, label) ==
    [id |-> id, from |-> from, to |-> to, label |-> label, style |-> "solid",
     metadata |-> [status |-> "pending", note |-> ""]]

NewQuestion(id) == [id |-> id, category |-> "scope", text |-> "Why?", answer |-> ""]

Section(id, nodes, connections, questions) ==
    [id |-> id, title |-> "Main Process", description |-> "",
     nodes |-> nodes, connections |-> connections, questions |-> questions]

\* this.data as the constructor builds it
InitialData ==
    [version |-> 1, timestamp |-> 0, title |-> "New Flowchart",
     description |-> "", generalNotes |-> "",
     flowcharts |-> << Section("flowchart-1", <<>>, <<>>, <<>>) >>]

(***************************************************************************)
(* Reading the model.                                                      *)
(***************************************************************************)
\* getCurrentFlowchart() is this.data.flowcharts[0]: undefined when the list is empty
HasCurrent(d) == Len(d.flowcharts) > 0
getCurrentFlowchart(d) == d.flowcharts[1]

Nodes(d) == IF HasCurrent(d) THEN getCurrentFlowchart(d).nodes ELSE <<>>
Connections(d) == IF HasCurrent(d) THEN getCurrentFlowchart(d).connections ELSE <<>>
Questions(d) == IF HasCurrent(d) THEN getCurrentFlowchart(d).questions ELSE <<>>

findNodeByIdOrFirst(d, nodeId) ==
    LET hits == Indices(Nodes(d), LAMBDA n : n.id = nodeId)
    IN IF hits = {} THEN (IF Nodes(d) = <<>> THEN 0 ELSE 1) ELSE Min(hits)

\* findNodeById: the index of the first node with that id, 0 when there is none
findNodeById(d, nodeId) ==
    LET hits == Indices(Nodes(d), LAMBDA n : n.id = nodeId)
    IN IF hits = {} THEN 0 ELSE Min(hits)

findConnectionById(d, connectionId) ==
    LET hits == Indices(Connections(d), LAMBDA c : c.id = connectionId)
    IN IF hits = {} THEN 0 ELSE Min(hits)

WithNodesEverySection(d, nodes) ==
    [d EXCEPT !.flowcharts = [i \in 1..Len(@) |-> [@[i] EXCEPT !.nodes = nodes]]]

\* flowchart.nodes = ... on the flowchart getCurrentFlowchart() returns
WithNodes(d, nodes) == [d EXCEPT !.flowcharts[1].nodes = nodes]
WithConnections(d, conns) == [d EXCEPT !.flowcharts[1].connections = conns]
WithQuestions(d, qs) == [d EXCEPT !.flowcharts[1].questions = qs]

(***************************************************************************)
(* Canvas elements.                                                        *)
(***************************************************************************)
\* d3 select(...).remove(): removes the first element that matches
RECURSIVE RemoveFirst(_, _)
RemoveFirst(s, id) ==
    IF s = <<>> THEN <<>>
    ELSE IF Head(s) = id THEN Tail(s)
         ELSE <<Head(s)>> \o RemoveFirst(Tail(s), id)

renderNode(group, node) == Append(group, node.id)

removeNode(group, nodeId) == RemoveFirst(group, nodeId)

removeConnection(group, connectionId) == RemoveFirst(group, connectionId)

\* renderConnection: nothing is drawn unless both endpoints resolve
renderConnection(group, d, c) ==
    IF findNodeById(d, c.from) = 0 \/ findNodeById(d, c.to) = 0 THEN group
    ELSE Append(group, c.id)

(***************************************************************************)
(* JSON payloads.  A payload is a record with the diagram's fields; an     *)
(* array field that may be absent is [present, items].  version = 0 stands *)
(* for a missing (falsy) version.                                          *)
(***************************************************************************)
Absent == [present |-> FALSE, items |-> <<>>]
Present(items) == [present |-> TRUE, items |-> items]

\* jsonData.nodes || []
OrEmpty(field) == IF field.present THEN field.items ELSE <<>>

EmptyJson ==
    [version |-> 0, timestamp |-> 0, title |-> "", description |-> "", generalNotes |-> "",
     flowcharts |-> Absent, nodes |-> Absent, connections |-> Absent, questions |-> Absent]

\* the object this.data seen as a payload
ToJson(d) ==
    [version |-> d.version, timestamp |-> d.timestamp, title |-> d.title,
     description |-> d.description, generalNotes |-> d.generalNotes,
     flowcharts |-> Present(d.flowcharts),
     nodes |-> Absent, connections |-> Absent, questions |-> Absent]

\* a versioned payload taken as this.data
FromJson(json) ==
    [version |-> json.version, timestamp |-> json.timestamp, title |-> json.title,
     description |-> json.description, generalNotes |-> json.generalNotes,
     flowcharts |-> json.flowcharts.items]

(***************************************************************************)
(* Selection, viewport and path: the values of a new canvas.               *)
(***************************************************************************)
\* a selected element, by kind ("node" | "connection") and id
Mark(kind, id) == [kind |-> kind, id |-> id]

\* selectedElement = null
NoSelection == Mark("none", NoId)

\* d3.zoomIdentity
zoomIdentity == [k |-> R(1), x |-> R(0), y |-> R(0)]

\* no path drawn yet
NoPath ==
    [drawn |-> FALSE, sourceNode |-> NewNode(NoId, "process", 0, 0),
     targetNode |-> NewNode(NoId, "process", 0, 0),
     source |-> Point(R(0), R(0)), target |-> Point(R(0), R(0))]

(***************************************************************************)
(* The call record and the held payload.                                   *)
(***************************************************************************)
Op(name, id, hit, threw, n) ==
    [op |-> name, id |-> id, hit |-> hit, threw |-> threw, n |-> n]

\* An aliased payload is the object this.data, so it shows every change of it.
KeepPayload ==
    /\ payloadState' = payloadState
    /\ payload' = IF payloadState = "alias" THEN ToJson(data') ELSE payload

Init ==
    /\ data = InitialData
    /\ nextNodeId = 1
    /\ nextConnectionId = 1
    /\ nextQuestionId = 1
    /\ connectionInProgress = NoId
    /\ canvasPending = NoId
    /\ previewLines = 0
    /\ currentMode = "select"
    /\ selectedNodeType = "none"
    /\ nodesGroup = <<>>
    /\ connectionsGroup = <<>>
    /\ selectedElement = NoSelection
    /\ canvasSelected = NoSelection
    /\ selectedMarks = {}
    /\ transform = zoomIdentity
    /\ lastPath = NoPath
    /\ payload = EmptyJson
    /\ payloadState = "none"
    /\ lastOp = Op("init", NoId, FALSE, FALSE, 0)

(***************************************************************************)
(* Node management.                                                        *)
(***************************************************************************)
newNodeIdFromLength == NodeIdOf(Len(Nodes(data)) + 1)

\* `node-${this.nextNodeId++}`
newNodeId == NodeIdOf(nextNodeId)

\* `conn-${this.nextConnectionId++}`
newConnectionId == ConnectionIdOf(nextConnectionId)

addNode(type, x, y) ==
    /\ nextNodeId <= MaxNodeId
    /\ Len(nodesGroup) < MaxNodeId
    /\ nextNodeId' = nextNodeId + 1
    /\ IF HasCurrent(data)
       THEN /\ data' = WithNodes(data,
                   Append(Nodes(data), NewNode(newNodeId, type, x, y)))
            /\ nodesGroup' = renderNode(nodesGroup, NewNode(newNodeId, type, x, y))
            /\ lastOp' = Op("addNode", newNodeId, TRUE, FALSE, 0)
       ELSE /\ UNCHANGED <<data, nodesGroup>>
            /\ lastOp' = Op("addNode", newNodeId, FALSE, TRUE, 0)
    /\ UNCHANGED <<nextConnectionId, nextQuestionId, connectionInProgress, drawVars, uiVars,
                   connectionsGroup, selectionVars, viewVars>>
    /\ KeepPayload

deleteNodeOnlyFrom(d, nodeId) ==
    WithConnections(
        WithNodes(d, Filter(Nodes(d), LAMBDA n : n.id # nodeId)),
        Filter(Connections(d), LAMBDA c : c.from # nodeId))

deleteNodeDropsAllEdges(d, nodeId) ==
    WithConnections(WithNodes(d, Filter(Nodes(d), LAMBDA n : n.id # nodeId)), <<>>)

\* the model after deleteNode(nodeId), a current flowchart given
deleteNodeData(d, nodeId) ==
    WithConnections(
        WithNodes(d, Filter(Nodes(d), LAMBDA n : n.id # nodeId)),
        Filter(Connections(d), LAMBDA c : c.from # nodeId /\ c.to # nodeId))

deleteNode(nodeId) ==
    /\ IF HasCurrent(data)
       THEN /\ data' = deleteNodeData(data, nodeId)
            /\ nodesGroup' = removeNode(nodesGroup, nodeId)
            /\ selectedMarks' = selectedMarks \ {Mark("node", nodeId)}
            /\ lastOp' = Op("deleteNode", nodeId, findNodeById(data, nodeId) # 0, FALSE,
                            Len(Connections(data)) - Len(Connections(data')))
       ELSE /\ UNCHANGED <<data, nodesGroup, selectedMarks>>
            /\ lastOp' = Op("deleteNode", nodeId, FALSE, TRUE, 0)
    /\ UNCHANGED <<counterVars, connectionInProgress, drawVars, uiVars, connectionsGroup,
                   selectedElement, canvasSelected, viewVars>>
    /\ KeepPayload

SetNode(d, i, node) == [d EXCEPT !.flowcharts[1].nodes[i] = node]
SetConnection(d, i, c) == [d EXCEPT !.flowcharts[1].connections[i] = c]

\* the frame of an update call that changes this.data alone
UpdateFrame ==
    /\ UNCHANGED <<counterVars, connectionInProgress, drawVars, uiVars, connectionsGroup,
                   selectedElement, canvasSelected, viewVars>>
    /\ KeepPayload

\* an update of a node field: i is the index findNodeById returns, and was(node) is
\* what the call record keeps of the node as it was
updateNodeRecording(name, nodeId, change(_), was(_)) ==
    /\ IF ~HasCurrent(data)
       THEN /\ UNCHANGED data
            /\ lastOp' = Op(name, nodeId, FALSE, TRUE, 0)
       ELSE LET i == findNodeById(data, nodeId)
            IN /\ data' = IF i = 0 THEN data ELSE SetNode(data, i, change(Nodes(data)[i]))
               /\ lastOp' = Op(name, nodeId, i # 0, FALSE,
                               IF i = 0 THEN 0 ELSE was(Nodes(data)[i]))
    /\ UNCHANGED <<nodesGroup, selectedMarks>>
    /\ UpdateFrame

updateNodeWith(name, nodeId, change(_)) ==
    updateNodeRecording(name, nodeId, change, LAMBDA n : 0)

updateNodePosition(nodeId, x, y) ==
    updateNodeWith("updateNodePosition", nodeId, LAMBDA n : [n EXCEPT !.x = x, !.y = y])

updateNodeText(nodeId, text) ==
    updateNodeWith("updateNodeText", nodeId, LAMBDA n : [n EXCEPT !.text = text])

\* the place of a status among 'pending', 'approved', 'rejected'
StatusNumber(status) ==
    CASE status = "pending" -> 1
      [] status = "approved" -> 2
      [] status = "rejected" -> 3
      [] OTHER -> 0

updateNodeStatusThroughPending(nodeId, status) ==
    updateNodeRecording("updateNodeStatus", nodeId,
        LAMBDA n : IF n.metadata.status # "pending" /\ status # "pending" THEN n
                   ELSE [n EXCEPT !.metadata.status = status],
        LAMBDA n : StatusNumber(n.metadata.status))

\* the call record keeps the number of the status the node had
updateNodeStatus(nodeId, status) ==
    updateNodeRecording("updateNodeStatus", nodeId,
        LAMBDA n : [n EXCEPT !.metadata.status = status],
        LAMBDA n : StatusNumber(n.metadata.status))

updateNodeNotes(nodeId, notes) ==
    updateNodeWith("updateNodeNotes", nodeId, LAMBDA n : [n EXCEPT !.metadata.note = notes])

updateNodeTypeKeepsSize(nodeId, type) ==
    /\ IF ~HasCurrent(data)
       THEN /\ UNCHANGED <<data, nodesGroup, selectedMarks>>
            /\ lastOp' = Op("updateNodeType", nodeId, FALSE, TRUE, 0)
       ELSE LET i == findNodeById(data, nodeId)
            IN /\ data' = IF i = 0 THEN data
                          ELSE SetNode(data, i,
                                 [Nodes(data)[i] EXCEPT
                                    !.type = type,
                                    !.style.backgroundColor = getDefaultNodeColor(type)])
               /\ nodesGroup' = IF i = 0 THEN nodesGroup
                                ELSE renderNode(removeNode(nodesGroup, nodeId), Nodes(data)[i])
               /\ selectedMarks' = IF i = 0 THEN selectedMarks
                                   ELSE selectedMarks \ {Mark("node", nodeId)}
               /\ lastOp' = Op("updateNodeType", nodeId, i # 0, FALSE, 0)
    /\ UpdateFrame

\* updateNodeType also redraws the node: canvas.updateNode removes its element and renders it anew
updateNodeType(nodeId, type) ==
    /\ IF ~HasCurrent(data)
       THEN /\ UNCHANGED <<data, nodesGroup, selectedMarks>>
            /\ lastOp' = Op("updateNodeType", nodeId, FALSE, TRUE, 0)
       ELSE LET i == findNodeById(data, nodeId)
            IN /\ data' = IF i = 0 THEN data
                          ELSE SetNode(data, i,
                                 [Nodes(data)[i] EXCEPT
                                    !.type = type,
                                    !.style.backgroundColor = getDefaultNodeColor(type),
                                    !.width = getDefaultNodeSize(type).width,
                                    !.height = getDefaultNodeSize(type).height])
               /\ nodesGroup' = IF i = 0 THEN nodesGroup
                                ELSE renderNode(removeNode(nodesGroup, nodeId), Nodes(data)[i])
               /\ selectedMarks' = IF i = 0 THEN selectedMarks
                                   ELSE selectedMarks \ {Mark("node", nodeId)}
               /\ lastOp' = Op("updateNodeType", nodeId, i # 0, FALSE, 0)
    /\ UpdateFrame

(***************************************************************************)
(* Connection management.                                                  *)
(***************************************************************************)
\* addConnection on a model with a current flowchart: the data and the canvas after it
addConnectionData(d, fromNodeId, toNodeId, label) ==
    WithConnections(d, Append(Connections(d),
        NewConnection(newConnectionId, fromNodeId, toNodeId, label)))

addConnection(fromNodeId, toNodeId, label) ==
    /\ nextConnectionId <= MaxConnectionId
    /\ Len(connectionsGroup) < MaxConnectionId
    /\ nextConnectionId' = nextConnectionId + 1
    /\ IF HasCurrent(data)
       THEN /\ data' = addConnectionData(data, fromNodeId, toNodeId, label)
            /\ connectionsGroup' = renderConnection(connectionsGroup, data',
                   NewConnection(newConnectionId, fromNodeId, toNodeId, label))
            /\ lastOp' = Op("addConnection", newConnectionId, TRUE, FALSE, 0)
       ELSE /\ UNCHANGED <<data, connectionsGroup>>
            /\ lastOp' = Op("addConnection", newConnectionId, FALSE, TRUE, 0)
    /\ UNCHANGED <<nextNodeId, nextQuestionId, connectionInProgress, drawVars, uiVars, nodesGroup,
                   selectionVars, viewVars>>
    /\ KeepPayload

\* an update of a connection field; throws(c) tells whether the canvas call throws
updateConnectionWith(name, connectionId, change(_), throws(_)) ==
    /\ IF ~HasCurrent(data)
       THEN /\ UNCHANGED data
            /\ lastOp' = Op(name, connectionId, FALSE, TRUE, 0)
       ELSE LET i == findConnectionById(data, connectionId)
            IN /\ data' = IF i = 0 THEN data
                          ELSE SetConnection(data, i, change(Connections(data)[i]))
               /\ lastOp' = Op(name, connectionId, i # 0,
                               i # 0 /\ throws(change(Connections(data)[i])), 0)
    /\ UNCHANGED <<nodesGroup, selectedMarks>>
    /\ UpdateFrame

\* canvas.updateConnectionLabel reads the endpoints' geometry when the label is not empty
updateConnectionLabel(connectionId, label) ==
    updateConnectionWith("updateConnectionLabel", connectionId,
        LAMBDA c : [c EXCEPT !.label = label],
        LAMBDA c : c.label # "" /\ (findNodeById(data, c.from) = 0 \/ findNodeById(data, c.to) = 0))

updateConnectionStyle(connectionId, style) ==
    updateConnectionWith("updateConnectionStyle", connectionId,
        LAMBDA c : [c EXCEPT !.style = style], LAMBDA c : FALSE)

updateConnectionStatus(connectionId, status) ==
    updateConnectionWith("updateConnectionStatus", connectionId,
        LAMBDA c : [c EXCEPT !.metadata.status = status], LAMBDA c : FALSE)

deleteConnectionInverted(d, connectionId) ==
    WithConnections(d, Filter(Connections(d), LAMBDA c : c.id = connectionId))

deleteConnectionData(d, connectionId) ==
    WithConnections(d, Filter(Connections(d), LAMBDA c : c.id # connectionId))

deleteConnection(connectionId) ==
    /\ IF HasCurrent(data)
       THEN /\ data' = deleteConnectionData(data, connectionId)
            /\ connectionsGroup' = removeConnection(connectionsGroup, connectionId)
            /\ selectedMarks' = selectedMarks \ {Mark("connection", connectionId)}
            /\ lastOp' = Op("deleteConnection", connectionId,
                            findConnectionById(data, connectionId) # 0, FALSE,
                            Len(Connections(data)) - Len(Connections(data')))
       ELSE /\ UNCHANGED <<data, connectionsGroup, selectedMarks>>
            /\ lastOp' = Op("deleteConnection", connectionId, FALSE, TRUE, 0)
    /\ UNCHANGED <<counterVars, connectionInProgress, drawVars, uiVars, nodesGroup,
                   selectedElement, canvasSelected, viewVars>>
    /\ KeepPayload

clearAll ==
    /\ IF HasCurrent(data)
       THEN /\ data' = WithQuestions(WithConnections(WithNodes(data, <<>>), <<>>), <<>>)
            /\ nodesGroup' = <<>>
            /\ connectionsGroup' = <<>>
            /\ selectedElement' = NoSelection
            /\ canvasSelected' = NoSelection
            /\ selectedMarks' = {}
            /\ lastOp' = Op("clearAll", NoId, TRUE, FALSE, 0)
       ELSE /\ UNCHANGED <<data, nodesGroup, connectionsGroup, selectionVars>>
            /\ lastOp' = Op("clearAll", NoId, FALSE, TRUE, 0)
    /\ UNCHANGED <<counterVars, connectionInProgress, drawVars, uiVars, viewVars>>
    /\ KeepPayload

(***************************************************************************)
(* Interaction mode and the connect gesture.                               *)
(***************************************************************************)
\* canvas.startConnectionDraw(fromNode): a new preview line is appended to the svg and
\* the canvas's slot is overwritten with it
startConnectionDraw(fromNodeId) ==
    /\ canvasPending' = fromNodeId
    /\ previewLines' = previewLines + 1

\* canvas.endConnectionDraw(): removes the line of the canvas's slot, if the slot is set
endConnectionDraw ==
    /\ canvasPending' = NoId
    /\ previewLines' = IF canvasPending # NoId THEN previewLines - 1 ELSE previewLines

\* window.setMode: sets the mode; a change of mode cancels a connection being drawn
setMode(mode) ==
    /\ currentMode' = mode
    /\ connectionInProgress' = IF mode = currentMode THEN connectionInProgress ELSE NoId
    /\ IF mode = currentMode THEN UNCHANGED drawVars ELSE endConnectionDraw
    /\ lastOp' = Op("setMode", NoId, mode # currentMode, FALSE,
                    IF mode # currentMode /\ connectionInProgress # NoId THEN 1 ELSE 0)
    /\ UNCHANGED <<data, counterVars, selectedNodeType, canvasVars, selectionVars, viewVars>>
    /\ KeepPayload

connectionStartInAnyMode == TRUE

\* the test of the mousedown and nodeConnectionStart handlers
connectionStartAllowed == currentMode = "connect"

\* mousedown on the node element i: nodeConnectionStart, then startConnection
nodeMouseDown(i) ==
    /\ i \in 1..Len(nodesGroup)
    /\ connectionStartAllowed => previewLines < MaxPreviewLines
    /\ connectionInProgress' = IF connectionStartAllowed THEN nodesGroup[i]
                               ELSE connectionInProgress
    /\ IF connectionStartAllowed THEN startConnectionDraw(nodesGroup[i])
       ELSE UNCHANGED drawVars
    /\ lastOp' = Op("nodeMouseDown", nodesGroup[i], connectionStartAllowed, FALSE, 0)
    /\ UNCHANGED <<data, counterVars, uiVars, canvasVars, selectionVars, viewVars>>
    /\ KeepPayload

\* completeConnection adds an edge when the pending source is another node
CompletesEdge(toNodeId) == connectionInProgress # NoId /\ connectionInProgress # toNodeId

\* mouseup on the node element i: nodeConnectionEnd, then completeConnection
nodeMouseUp(i) ==
    /\ i \in 1..Len(nodesGroup)
    /\ IF currentMode = "connect" /\ connectionInProgress # NoId
       THEN IF CompletesEdge(nodesGroup[i])
            THEN /\ nextConnectionId <= MaxConnectionId
                 /\ Len(connectionsGroup) < MaxConnectionId
                 /\ nextConnectionId' = nextConnectionId + 1
                 /\ IF HasCurrent(data)
                    THEN /\ data' = addConnectionData(data, connectionInProgress,
                                                      nodesGroup[i], "")
                         /\ connectionsGroup' = renderConnection(connectionsGroup, data',
                                NewConnection(newConnectionId,
                                              connectionInProgress, nodesGroup[i], ""))
                         /\ connectionInProgress' = NoId
                         /\ endConnectionDraw
                         /\ lastOp' = Op("nodeMouseUp", nodesGroup[i], TRUE, FALSE, 1)
                    ELSE \* addConnection throws before the pending connection is reset
                         /\ UNCHANGED <<data, connectionsGroup, connectionInProgress, drawVars>>
                         /\ lastOp' = Op("nodeMouseUp", nodesGroup[i], TRUE, TRUE, 0)
            ELSE /\ connectionInProgress' = NoId
                 /\ endConnectionDraw
                 /\ lastOp' = Op("nodeMouseUp", nodesGroup[i], TRUE, FALSE, 0)
                 /\ UNCHANGED <<data, nextConnectionId, connectionsGroup>>
       ELSE /\ lastOp' = Op("nodeMouseUp", nodesGroup[i], FALSE, FALSE, 0)
            /\ UNCHANGED <<data, nextConnectionId, connectionsGroup, connectionInProgress, drawVars>>
    /\ UNCHANGED <<nextNodeId, nextQuestionId, uiVars, nodesGroup, selectionVars, viewVars>>
    /\ KeepPayload

\* mouseup over empty space: the svg has a click handler only, so nothing runs
canvasMouseUp ==
    /\ lastOp' = Op("canvasMouseUp", NoId, currentMode = "connect", FALSE, 0)
    /\ UNCHANGED <<data, counterVars, connectionInProgress, drawVars, uiVars, canvasVars,
                   selectionVars, viewVars>>
    /\ KeepPayload

(***************************************************************************)
(* Selection and the click on empty canvas.                                *)
(***************************************************************************)
canvasSelectElementNoClear(marks, kind, id) == marks \cup {Mark(kind, id)}

\* FlowchartCanvas.selectElement: the elements that carry 'selected' after it.
\* The clicked element is drawn, so the select of its id finds an element.
canvasSelectElement(marks, kind, id) == {Mark(kind, id)}

\* FlowchartEditor.selectElement(element, kind)
selectElement(name, kind, id) ==
    /\ selectedElement' = Mark(kind, id)
    /\ canvasSelected' = Mark(kind, id)
    /\ selectedMarks' = canvasSelectElement(selectedMarks, kind, id)
    /\ lastOp' = Op(name, id, selectedElement.kind \notin {"none", kind}, FALSE,
                    IF selectedMarks \notin {{}, {Mark(kind, id)}} THEN 1 ELSE 0)
    /\ UNCHANGED <<data, counterVars, connectionInProgress, drawVars, uiVars, canvasVars, viewVars>>
    /\ KeepPayload

\* click on the node element i
nodeClick(i) ==
    /\ i \in 1..Len(nodesGroup)
    /\ selectElement("nodeClick", "node", nodesGroup[i])

\* click on the connection element j
connectionClick(j) ==
    /\ j \in 1..Len(connectionsGroup)
    /\ selectElement("connectionClick", "connection", connectionsGroup[j])

\* window.selectedNodeType is set by the page: a node type, or "none" for no type
setSelectedNodeType(type) ==
    /\ selectedNodeType' = type
    /\ lastOp' = Op("setSelectedNodeType", NoId, type # "none", FALSE, 0)
    /\ UNCHANGED <<data, counterVars, connectionInProgress, drawVars, currentMode, canvasVars,
                   selectionVars, viewVars>>
    /\ KeepPayload

\* the canvasClick handler, (x, y) being the pointer in model coordinates:
\* addNode and then setMode('select') in add mode with a type, clearSelection otherwise
canvasClick(x, y) ==
    /\ IF currentMode = "add" /\ selectedNodeType # "none"
       THEN /\ nextNodeId <= MaxNodeId
            /\ Len(nodesGroup) < MaxNodeId
            /\ nextNodeId' = nextNodeId + 1
            /\ IF HasCurrent(data)
               THEN /\ data' = WithNodes(data,
                           Append(Nodes(data), NewNode(newNodeId, selectedNodeType, x, y)))
                    /\ nodesGroup' = renderNode(nodesGroup,
                                                NewNode(newNodeId, selectedNodeType, x, y))
                    /\ currentMode' = "select"
                    /\ connectionInProgress' = NoId
                    /\ endConnectionDraw
                    /\ lastOp' = Op("canvasClick", newNodeId, TRUE, FALSE, 0)
               ELSE \* addNode throws and setMode is not reached
                    /\ UNCHANGED <<data, nodesGroup, currentMode, connectionInProgress, drawVars>>
                    /\ lastOp' = Op("canvasClick", newNodeId, TRUE, TRUE, 0)
            /\ UNCHANGED selectionVars
       ELSE /\ selectedElement' = NoSelection
            /\ canvasSelected' = NoSelection
            /\ selectedMarks' = {}
            /\ lastOp' = Op("canvasClick", NoId, FALSE, FALSE, 0)
            /\ UNCHANGED <<data, nextNodeId, nodesGroup, currentMode, connectionInProgress, drawVars>>
    /\ UNCHANGED <<nextConnectionId, nextQuestionId, selectedNodeType, connectionsGroup,
                   viewVars>>
    /\ KeepPayload

(***************************************************************************)
(* The path of an edge.                                                    *)
(***************************************************************************)
nodeCenter(node) ==
    Point(RAdd(R(node.x), Rat(node.width, 2)), RAdd(R(node.y), Rat(node.height, 2)))

\* case 'start', 'end': the angle is Math.atan2(dy, dx), which is 0 when dy is 0 and
\* dx is not negative; its cosine is then 1 and its sine 0.  Any other angle gives
\* values of Math.cos and Math.sin that are not computed here.
getEllipseEdgePoint(node, targetPoint) ==
    LET center == nodeCenter(node)
        dx == RSub(targetPoint.x, center.x)
        dy == RSub(targetPoint.y, center.y)
    IN IF dy = R(0) /\ RLessEq(R(0), dx)
       THEN Point(RAdd(center.x, Rat(node.width, 2)), center.y)
       ELSE Point(Inexact, Inexact)

\* case 'decision': slope is dy / dx, infinite when dx is 0 and dy is not
getDiamondEdgePoint(node, targetPoint) ==
    LET center == nodeCenter(node)
        dx == RSub(targetPoint.x, center.x)
        dy == RSub(targetPoint.y, center.y)
        halfWidth == Rat(node.width, 2)
        halfHeight == Rat(node.height, 2)
        slope == RDiv(dy, dx)
    IN IF RLess(RAbs(dy), RAbs(dx))
       THEN LET x == IF RLess(R(0), dx) THEN RAdd(center.x, halfWidth)
                     ELSE RSub(center.x, halfWidth)
                y == RAdd(center.y, RMul(slope, RSub(x, center.x)))
            IN Point(x, RMax(RSub(center.y, halfHeight),
                             RMin(RAdd(center.y, halfHeight), y)))
       ELSE LET y == IF RLess(R(0), dy) THEN RAdd(center.y, halfHeight)
                     ELSE RSub(center.y, halfHeight)
                x == IF dx = R(0) /\ dy # R(0) THEN center.x
                     ELSE RAdd(center.x, RDiv(RSub(y, center.y), slope))
            IN Point(RMax(RSub(center.x, halfWidth),
                          RMin(RAdd(center.x, halfWidth), x)), y)

getRectangleEdgePointFlipped(node, targetPoint) ==
    LET center == nodeCenter(node)
        dx == RSub(targetPoint.x, center.x)
        dy == RSub(targetPoint.y, center.y)
        rectHalfWidth == Rat(node.width, 2)
        rectHalfHeight == Rat(node.height, 2)
    IN IF RLess(RMul(RAbs(dy), rectHalfWidth), RMul(RAbs(dx), rectHalfHeight))
       THEN Point(IF RLess(dx, R(0)) THEN RAdd(center.x, rectHalfWidth)
                  ELSE RSub(center.x, rectHalfWidth),
                  RAdd(center.y, RDiv(RMul(dy, rectHalfWidth), RAbs(dx))))
       ELSE Point(RAdd(center.x, RDiv(RMul(dx, rectHalfHeight), RAbs(dy))),
                  IF RLess(dy, R(0)) THEN RAdd(center.y, rectHalfHeight)
                  ELSE RSub(center.y, rectHalfHeight))

\* default: the rectangle
getRectangleEdgePoint(node, targetPoint) ==
    LET center == nodeCenter(node)
        dx == RSub(targetPoint.x, center.x)
        dy == RSub(targetPoint.y, center.y)
        rectHalfWidth == Rat(node.width, 2)
        rectHalfHeight == Rat(node.height, 2)
    IN IF RLess(RMul(RAbs(dy), rectHalfWidth), RMul(RAbs(dx), rectHalfHeight))
       THEN Point(IF RLess(R(0), dx) THEN RAdd(center.x, rectHalfWidth)
                  ELSE RSub(center.x, rectHalfWidth),
                  RAdd(center.y, RDiv(RMul(dy, rectHalfWidth), RAbs(dx))))
       ELSE Point(RAdd(center.x, RDiv(RMul(dx, rectHalfHeight), RAbs(dy))),
                  IF RLess(R(0), dy) THEN RAdd(center.y, rectHalfHeight)
                  ELSE RSub(center.y, rectHalfHeight))

getNodeEdgePoint(node, targetPoint) ==
    CASE node.type \in {"start", "end"} -> getEllipseEdgePoint(node, targetPoint)
      [] node.type = "decision" -> getDiamondEdgePoint(node, targetPoint)
      [] OTHER -> getRectangleEdgePoint(node, targetPoint)

\* the first and the last point of the curve calculateConnectionPath returns
calculateConnectionPath(sourceNode, targetNode) ==
    [drawn |-> TRUE, sourceNode |-> sourceNode, targetNode |-> targetNode,
     source |-> getNodeEdgePoint(sourceNode, nodeCenter(targetNode)),
     target |-> getNodeEdgePoint(targetNode, nodeCenter(sourceNode))]

\* the path of an edge from the node at i to the node at j is calculated, as
\* renderConnection and updateConnection do for an edge whose two nodes they find
drawPath(i, j) ==
    /\ i \in 1..Len(Nodes(data)) /\ j \in 1..Len(Nodes(data))
    /\ lastPath' = calculateConnectionPath(Nodes(data)[i], Nodes(data)[j])
    /\ lastOp' = Op("drawPath", Nodes(data)[i].id, i # j, FALSE, 0)
    /\ UNCHANGED <<data, counterVars, connectionInProgress, drawVars, uiVars, canvasVars,
                   selectionVars, transform>>
    /\ KeepPayload

(***************************************************************************)
(* The viewport: the zoom transform of the svg.                            *)
(***************************************************************************)
\* svgRect: the size of the svg element on the page
ViewWidth == 800
ViewHeight == 600

\* scaleExtent([0.1, 4])
MinScale == Rat(1, 10)
MaxScale == R(4)

padding == 50

MaxOf(S) == CHOOSE m \in S : \A k \in S : k <= m

calculateBoundsFromOrigin(nodes) ==
    LET minX == Min({nodes[i].x : i \in 1..Len(nodes)})
        minY == Min({nodes[i].y : i \in 1..Len(nodes)})
        maxX == MaxOf({nodes[i].x + nodes[i].width : i \in 1..Len(nodes)})
        maxY == MaxOf({nodes[i].y + nodes[i].height : i \in 1..Len(nodes)})
    IN [minX |-> minX, minY |-> minY, width |-> maxX, height |-> maxY]

calculateBounds(nodes) ==
    LET minX == Min({nodes[i].x : i \in 1..Len(nodes)})
        minY == Min({nodes[i].y : i \in 1..Len(nodes)})
        maxX == MaxOf({nodes[i].x + nodes[i].width : i \in 1..Len(nodes)})
        maxY == MaxOf({nodes[i].y + nodes[i].height : i \in 1..Len(nodes)})
    IN [minX |-> minX, minY |-> minY, width |-> maxX - minX, height |-> maxY - minY]

\* the transform fitToScreen hands to zoom.transform
fitTransform(nodes) ==
    LET bounds == calculateBounds(nodes)
        scale == RMin(Rat(ViewWidth, bounds.width + padding * 2),
                      Rat(ViewHeight, bounds.height + padding * 2))
        translateX == RSub(RDiv(RSub(R(ViewWidth), RMul(R(bounds.width), scale)), R(2)),
                           RMul(R(bounds.minX), scale))
        translateY == RSub(RDiv(RSub(R(ViewHeight), RMul(R(bounds.height), scale)), R(2)),
                           RMul(R(bounds.minY), scale))
    IN [k |-> scale, x |-> translateX, y |-> translateY]

ViewFrame ==
    /\ UNCHANGED <<data, counterVars, connectionInProgress, drawVars, uiVars, canvasVars,
                   selectionVars, lastPath>>
    /\ KeepPayload

\* fitToScreen: zoom.transform sets the transform it is given, whatever the scale extent
fitToScreen ==
    /\ transform' = IF Len(Nodes(data)) = 0 THEN transform ELSE fitTransform(Nodes(data))
    /\ lastOp' = Op("fitToScreen", NoId, Len(Nodes(data)) > 0, ~HasCurrent(data), 0)
    /\ ViewFrame

resetZoom ==
    /\ transform' = zoomIdentity
    /\ lastOp' = Op("resetZoom", NoId, TRUE, FALSE, 0)
    /\ ViewFrame

\* the wheel gesture of d3.zoom with the pointer at p: the scale is multiplied by
\* factor and kept within the scale extent, the point under the pointer stays put
wheelZoom(factor, p) ==
    LET k == RMax(MinScale, RMin(MaxScale, RMul(transform.k, factor)))
        p1 == Point(RDiv(RSub(p.x, transform.x), transform.k),
                    RDiv(RSub(p.y, transform.y), transform.k))
    IN /\ transform' = IF k = transform.k THEN transform
                       ELSE [k |-> k, x |-> RSub(p.x, RMul(p1.x, k)),
                             y |-> RSub(p.y, RMul(p1.y, k))]
       /\ lastOp' = Op("wheelZoom", NoId, k # transform.k, FALSE, 0)
       /\ ViewFrame

\* the drag gesture of d3.zoom on the background: the translation moves by (dx, dy)
pan(dx, dy) ==
    /\ RLessEq(RAbs(RAdd(transform.x, R(dx))), R(MaxPan))
    /\ RLessEq(RAbs(RAdd(transform.y, R(dy))), R(MaxPan))
    /\ transform' = [transform EXCEPT !.x = RAdd(@, R(dx)), !.y = RAdd(@, R(dy))]
    /\ lastOp' = Op("pan", NoId, TRUE, FALSE, 0)
    /\ ViewFrame

(***************************************************************************)
(* Data management.                                                        *)
(***************************************************************************)
\* the numbers updateIdCounters reads from a list of entities
IdNumbers(items, pre) == {MatchNumber(items[i].id, pre) : i \in 1..Len(items)}

\* n.id.match(...) throws on an entity without id
SomeNoId(items) == \E i \in 1..Len(items) : items[i].id = NoId

updateIdCountersByCount(d, c) ==
    IF ~HasCurrent(d) \/ SomeNoId(Nodes(d)) \/ SomeNoId(Connections(d)) \/ SomeNoId(Questions(d))
    THEN [c EXCEPT !.threw = TRUE]
    ELSE [c EXCEPT !.node = Len(Nodes(d)) + 1, !.conn = Len(Connections(d)) + 1,
                   !.q = Len(Questions(d)) + 1]

\* updateIdCounters: the counters after it, and whether it threw on the way
updateIdCounters(d, c) ==
    IF ~HasCurrent(d) \/ SomeNoId(Nodes(d)) THEN [c EXCEPT !.threw = TRUE]
    ELSE LET c1 == [c EXCEPT !.node = MaxOf0(IdNumbers(Nodes(d), "node")) + 1]
         IN IF SomeNoId(Connections(d)) THEN [c1 EXCEPT !.threw = TRUE]
            ELSE LET c2 == [c1 EXCEPT !.conn = MaxOf0(IdNumbers(Connections(d), "conn")) + 1]
                 IN IF SomeNoId(Questions(d)) THEN [c2 EXCEPT !.threw = TRUE]
                    ELSE [c2 EXCEPT !.q = MaxOf0(IdNumbers(Questions(d), "q")) + 1]

\* the first branch of loadFromJSON: a payload with version and flowcharts is taken whole
IsVersioned(json) == json.version # 0 /\ json.flowcharts.present

\* the assignments of loadFromJSON before updateIdCounters; the legacy branch
\* throws at once when there is no flowcharts[0] to write to
loadData(d, json) ==
    IF IsVersioned(json) THEN FromJson(json)
    ELSE IF ~HasCurrent(d) THEN d
    ELSE WithQuestions(
             WithConnections(WithNodes(d, OrEmpty(json.nodes)), OrEmpty(json.connections)),
             OrEmpty(json.questions))

RECURSIVE renderConnections(_, _, _)
renderConnections(group, d, conns) ==
    IF conns = <<>> THEN group
    ELSE renderConnections(renderConnection(group, d, Head(conns)), d, Tail(conns))

\* canvas.clear() followed by renderAll()
renderAllNodes(d) == [i \in 1..Len(Nodes(d)) |-> Nodes(d)[i].id]
renderAllConnections(d) == renderConnections(<<>>, d, Connections(d))

\* loadFromJSON(json) on the model d with counters c: [data, counters, threw]
loadFromJSONResult(d, c, json) ==
    IF ~IsVersioned(json) /\ ~HasCurrent(d)
    THEN [data |-> d, counters |-> [c EXCEPT !.threw = TRUE]]
    ELSE [data |-> loadData(d, json), counters |-> updateIdCounters(loadData(d, json), c)]

Counters == [node |-> nextNodeId, conn |-> nextConnectionId, q |-> nextQuestionId,
             threw |-> FALSE]

\* the effect of loadFromJSON(json) on everything but the held payload
LoadEffect(name, json) ==
    LET r == loadFromJSONResult(data, Counters, json)
    IN /\ data' = r.data
       /\ nextNodeId' = r.counters.node
       /\ nextConnectionId' = r.counters.conn
       /\ nextQuestionId' = r.counters.q
       /\ IF r.counters.threw
          THEN UNCHANGED <<canvasVars, canvasSelected, selectedMarks>>
          ELSE /\ nodesGroup' = renderAllNodes(r.data)
               /\ connectionsGroup' = renderAllConnections(r.data)
               /\ canvasSelected' = NoSelection
               /\ selectedMarks' = {}
       /\ lastOp' = Op(name, NoId, IsVersioned(json), r.counters.threw, 0)
       /\ UNCHANGED <<connectionInProgress, drawVars, uiVars, selectedElement, viewVars>>

\* loadFromJSON of a payload the caller built
loadFromJSON(json) ==
    /\ LoadEffect("loadFromJSON", json)
    /\ payloadState' = IF payloadState = "alias" /\ IsVersioned(json) THEN "own"
                       ELSE payloadState
    /\ payload' = IF payloadState = "alias" /\ ~IsVersioned(json) THEN ToJson(data')
                  ELSE payload

\* loadFromJSON of a versioned payload the caller keeps a reference to: the assignment
\* `this.data = jsonData` makes the caller's object the model itself
loadKeptPayload(json) ==
    /\ IsVersioned(json)
    /\ LoadEffect("loadFromJSON", json)
    /\ payloadState' = "alias"
    /\ payload' = json

\* JSON.parse(JSON.stringify(value)): every object and array is built anew
cloneNode(n) ==
    [id |-> n.id, type |-> n.type, text |-> n.text, x |-> n.x, y |-> n.y,
     width |-> n.width, height |-> n.height,
     style |-> [backgroundColor |-> n.style.backgroundColor,
                borderColor |-> n.style.borderColor, textColor |-> n.style.textColor],
     metadata |-> [category |-> n.metadata.category, priority |-> n.metadata.priority,
                   status |-> n.metadata.status, note |-> n.metadata.note]]

cloneConnection(c) ==
    [id |-> c.id, from |-> c.from, to |-> c.to, label |-> c.label, style |-> c.style,
     metadata |-> [status |-> c.metadata.status, note |-> c.metadata.note]]

cloneQuestion(q) ==
    [id |-> q.id, category |-> q.category, text |-> q.text, answer |-> q.answer]

cloneSectionNoQuestions(f) ==
    [id |-> f.id, title |-> f.title, description |-> f.description,
     nodes |-> [i \in 1..Len(f.nodes) |-> cloneNode(f.nodes[i])],
     connections |-> [i \in 1..Len(f.connections) |-> cloneConnection(f.connections[i])],
     questions |-> <<>>]

cloneSection(f) ==
    [id |-> f.id, title |-> f.title, description |-> f.description,
     nodes |-> [i \in 1..Len(f.nodes) |-> cloneNode(f.nodes[i])],
     connections |-> [i \in 1..Len(f.connections) |-> cloneConnection(f.connections[i])],
     questions |-> [i \in 1..Len(f.questions) |-> cloneQuestion(f.questions[i])]]

deepClone(d) ==
    [version |-> d.version, timestamp |-> d.timestamp, title |-> d.title,
     description |-> d.description, generalNotes |-> d.generalNotes,
     flowcharts |-> Present([i \in 1..Len(d.flowcharts) |-> cloneSection(d.flowcharts[i])]),
     nodes |-> Absent, connections |-> Absent, questions |-> Absent]

ExportSharingNoClone == "alias"

\* what the returned object is to this.data: "own" for a deep clone
ExportSharing == "own"

Times == 0..MaxTime

\* exportToJSON at time t: refreshes the timestamp and returns a deep clone
exportToJSON(t) ==
    /\ t \in Times /\ t >= data.timestamp
    /\ data' = [data EXCEPT !.timestamp = t]
    /\ payload' = deepClone(data')
    /\ payloadState' = ExportSharing
    /\ lastOp' = Op("exportToJSON", NoId, TRUE, FALSE, 0)
    /\ UNCHANGED <<counterVars, connectionInProgress, drawVars, uiVars, canvasVars, selectionVars,
                   viewVars>>

\* loadFromJSON(exportToJSON()) as one call: nobody else holds the exported object
roundTrip(t) ==
    /\ t \in Times /\ t >= data.timestamp
    /\ LET d1 == [data EXCEPT !.timestamp = t]
           r == loadFromJSONResult(d1, Counters, deepClone(d1))
       IN /\ data' = r.data
          /\ nextNodeId' = r.counters.node
          /\ nextConnectionId' = r.counters.conn
          /\ nextQuestionId' = r.counters.q
          /\ IF r.counters.threw
             THEN UNCHANGED <<canvasVars, canvasSelected, selectedMarks>>
             ELSE /\ nodesGroup' = renderAllNodes(r.data)
                  /\ connectionsGroup' = renderAllConnections(r.data)
                  /\ canvasSelected' = NoSelection
                  /\ selectedMarks' = {}
          /\ lastOp' = Op("roundTrip", NoId, TRUE, r.counters.threw, 0)
          /\ payloadState' = IF payloadState = "alias" THEN "own" ELSE payloadState
          /\ payload' = IF payloadState = "alias" THEN ToJson(d1) ELSE payload
    /\ UNCHANGED <<connectionInProgress, drawVars, uiVars, selectedElement, viewVars>>

\* the caller edits the object exportToJSON returned: a new title, the first section's nodes dropped
editPayload(title, dropNodes) ==
    /\ payloadState # "none"
    /\ payload' = [payload EXCEPT
                     !.title = title,
                     !.flowcharts.items = IF dropNodes /\ Len(@) > 0
                                          THEN [@ EXCEPT ![1].nodes = <<>>] ELSE @]
    /\ data' = IF payloadState = "alias" THEN FromJson(payload') ELSE data
    /\ lastOp' = Op("editPayload", NoId, dropNodes, FALSE, 0)
    /\ UNCHANGED <<counterVars, connectionInProgress, drawVars, uiVars, canvasVars, payloadState,
                   selectionVars, viewVars>>

(***************************************************************************)
(* Inputs.                                                                 *)
(***************************************************************************)
NodeTypes == {"start", "process", "decision", "end", "connector"}
Statuses == {"pending", "approved", "rejected"}
Modes == {"select", "add", "connect"}

NodeIds == {NodeIdOf(n) : n \in 1..MaxNodeId}
ConnectionIds == {ConnectionIdOf(n) : n \in 1..MaxConnectionId}

\* ids that addNode and addConnection never issue
GhostNode == NodeIdOf(0)
GhostConnection == ConnectionIdOf(0)

RECURSIVE SeqsUpTo(_, _)
SeqsUpTo(S, n) ==
    IF n = 0 THEN {<<>>}
    ELSE SeqsUpTo(S, n - 1) \cup {Append(q, e) : q \in SeqsUpTo(S, n - 1), e \in S}

\* payload nodes: ids that are sparse, foreign to the node-<n> form, or missing
LoadNodeIds == {NodeIdOf(1), NodeIdOf(MaxNodeId - 1), MakeId("step", MaxNodeId)}
LoadNodeLists ==
    SeqsUpTo({NewNode(id, "process", 0, 0) : id \in LoadNodeIds}, MaxLoad)
    \cup { << NewNode(NodeIdOf(MaxNodeId - 1), "process", 0, 0), NewNode(NoId, "process", 0, 0) >> }

LoadConnectionLists ==
    { <<>>,
      << NewConnection(ConnectionIdOf(MaxConnectionId), NodeIdOf(MaxNodeId - 1),
                       MakeId("step", MaxNodeId), "") >>,
      << NewConnection(MakeId("edge", MaxConnectionId), NodeIdOf(1), NodeIdOf(1), "") >>,
      << NewConnection(NoId, NodeIdOf(1), NodeIdOf(MaxNodeId - 1), "") >> }

LoadQuestionLists == { <<>>, << NewQuestion(QuestionIdOf(2)) >>, << NewQuestion(NoId) >> }

VersionedJson(sections) ==
    [version |-> 1, timestamp |-> 0, title |-> "Imported", description |-> "",
     generalNotes |-> "", flowcharts |-> Present(sections),
     nodes |-> Absent, connections |-> Absent, questions |-> Absent]

LegacyJson(nodes, connections, questions) ==
    [EmptyJson EXCEPT !.nodes = nodes, !.connections = connections, !.questions = questions]

SecondSection ==
    Section("flowchart-2", << NewNode(NodeIdOf(MaxNodeId), "end", 0, 0) >>, <<>>, <<>>)

SparseNodes == << NewNode(NodeIdOf(MaxNodeId - 1), "process", 0, 0),
                  NewNode(MakeId("step", MaxNodeId), "process", 0, 0) >>

\* the contents of a section: every node list alone, and the sparse node list
\* with every connection list and every question list
LoadContents ==
    { <<n, <<>>, <<>> >> : n \in LoadNodeLists }
    \cup { <<SparseNodes, c, <<>> >> : c \in LoadConnectionLists }
    \cup { <<SparseNodes, <<>>, q>> : q \in LoadQuestionLists }

LoadJsons ==
    { VersionedJson(<<>>), EmptyJson,
      VersionedJson(<< Section("flowchart-1", SparseNodes, <<>>, <<>>), SecondSection >>) }
    \cup { VersionedJson(<< Section("flowchart-1", c[1], c[2], c[3]) >>) : c \in LoadContents }
    \cup { LegacyJson(Present(c[1]), Present(c[2]), Present(c[3])) : c \in LoadContents }

(***************************************************************************)
(* Specifications.                                                         *)
(***************************************************************************)
\* addNode and deleteNode alone, from a new editor
NextAddDelete ==
    \/ \E type \in NodeTypes, x \in {0, 200} : addNode(type, x, 0)
    \/ \E id \in NodeIds \cup {GhostNode} : deleteNode(id)

SpecAddDelete == Init /\ [][NextAddDelete]_vars

\* loading, exporting and editing after a load
NextLoad ==
    \/ \E json \in LoadJsons : loadFromJSON(json)
    \/ \E t \in Times : roundTrip(t)
    \/ addNode("process", 0, 0)

SpecLoad == Init /\ [][NextLoad]_vars

\* structural editing in any state: duplicate ids and dangling edges come from a load
\* or from addConnection, which checks nothing; a failed load leaves no flowchart at all
GraphEndpoints == {NodeIdOf(1), NodeIdOf(2), GhostNode}

GraphJsons ==
    { VersionedJson(<<>>),
      LegacyJson(Present(<< NewNode(NodeIdOf(1), "process", 0, 0),
                            NewNode(NodeIdOf(2), "decision", 0, 0),
                            NewNode(NodeIdOf(1), "end", 0, 0) >>),
                 Present(<< NewConnection(ConnectionIdOf(1), NodeIdOf(1), NodeIdOf(2), ""),
                            NewConnection(ConnectionIdOf(1), NodeIdOf(2), NodeIdOf(MaxNodeId), "") >>),
                 Absent) }

NextGraph ==
    \/ addNode("process", 0, 0)
    \/ \E id \in NodeIds \cup {GhostNode} : deleteNode(id)
    \/ \E from \in GraphEndpoints, to \in GraphEndpoints : addConnection(from, to, "")
    \/ \E id \in ConnectionIds \cup {GhostConnection} : deleteConnection(id)
    \/ clearAll
    \/ \E json \in GraphJsons : loadFromJSON(json)

SpecGraph == Init /\ [][NextGraph]_vars

\* the update calls, with ids that are in the model and ids that are not
NextUpdate ==
    \/ addNode("process", 0, 0)
    \/ addConnection(NodeIdOf(1), NodeIdOf(2), "")
    \/ loadFromJSON(VersionedJson(<<>>))
    \/ \E id \in {NodeIdOf(1), GhostNode} :
        \/ updateNodePosition(id, 10, 20)
        \/ updateNodeText(id, "Edited")
        \/ updateNodeType(id, "decision")
        \/ updateNodeStatus(id, "approved")
        \/ updateNodeNotes(id, "note")
    \/ \E id \in {ConnectionIdOf(1), GhostConnection} :
        \/ updateConnectionLabel(id, "yes")
        \/ updateConnectionStyle(id, "dashed")
        \/ updateConnectionStatus(id, "rejected")

SpecUpdate == Init /\ [][NextUpdate]_vars

\* an exported payload held by the caller while the model is edited
NextExport ==
    \/ \E t \in Times : exportToJSON(t)
    \/ \E title \in {"Edited"}, dropNodes \in BOOLEAN : editPayload(title, dropNodes)
    \/ addNode("process", 0, 0)
    \/ deleteNode(NodeIdOf(1))
    \/ updateNodeText(NodeIdOf(1), "Edited")
    \/ updateConnectionLabel(ConnectionIdOf(1), "yes")
    \/ addConnection(NodeIdOf(1), NodeIdOf(2), "")
    \/ clearAll

SpecExport == Init /\ [][NextExport]_vars

\* the connect gesture among the structural calls, from an empty diagram
NextGesture ==
    \/ addNode("process", 0, 0)
    \/ \E id \in NodeIds : deleteNode(id)
    \/ \E id \in ConnectionIds : deleteConnection(id)
    \/ clearAll
    \/ \E mode \in Modes : setMode(mode)
    \/ \E i \in 1..MaxNodeId : nodeMouseDown(i)
    \/ \E i \in 1..MaxNodeId : nodeMouseUp(i)

SpecGesture == Init /\ [][NextGesture]_vars

\* The connect gesture alone: mouse down and up on nodes and over empty space, mode
\* changes, and the loads of SpecGraph.
NextConnect ==
    \/ addNode("process", 0, 0)
    \/ \E mode \in Modes : setMode(mode)
    \/ \E i \in 1..MaxNodeId : nodeMouseDown(i) \/ nodeMouseUp(i)
    \/ canvasMouseUp
    \/ \E json \in GraphJsons : loadFromJSON(json)

SpecConnect == Init /\ [][NextConnect]_vars

\* Status changes of nodes and edges, every status from every status.
NextStatus ==
    \/ addNode("process", 0, 0)
    \/ addConnection(NodeIdOf(1), NodeIdOf(2), "")
    \/ \E id \in {NodeIdOf(1), NodeIdOf(2), GhostNode}, status \in Statuses :
          updateNodeStatus(id, status)
    \/ \E status \in Statuses : updateConnectionStatus(ConnectionIdOf(1), status)

SpecStatus == Init /\ [][NextStatus]_vars

\* The viewport: zoom and pan gestures, fitToScreen and resetZoom over a few diagrams.
\* The pointer of a wheel gesture is over the image of the model's origin.
NextView ==
    \/ addNode("start", 10, 10)
    \/ addNode("connector", 200, 100)
    \/ deleteNode(NodeIdOf(1))
    \/ \E factor \in {Rat(1, 2), R(2)} : wheelZoom(factor, Point(transform.x, transform.y))
    \/ pan(MaxPan, 0) \/ pan(-MaxPan, 0) \/ pan(0, MaxPan)
    \/ fitToScreen
    \/ resetZoom

SpecView == Init /\ [][NextView]_vars

\* the places and types of the nodes whose edges are drawn
GeometryNodes ==
    ({"process", "decision"} \X {<<-60, -30>>, <<140, -30>>, <<140, 70>>})
        \cup {<<"start", <<-60, -30>> >>}

\* Edge paths between nodes of several types and places.
NextGeometry ==
    \/ \E n \in GeometryNodes : addNode(n[1], n[2][1], n[2][2])
    \/ \E i, j \in 1..MaxNodeId : drawPath(i, j)

SpecGeometry == Init /\ [][NextGeometry]_vars

\* Selection: clicks on the drawn nodes and connections and on empty canvas, with the
\* operations that draw and remove elements.
NextSelect ==
    \/ addNode("process", 0, 0)
    \/ addConnection(NodeIdOf(1), NodeIdOf(2), "")
    \/ \E i \in 1..MaxNodeId : nodeClick(i)
    \/ \E j \in 1..MaxConnectionId : connectionClick(j)
    \/ canvasClick(0, 0)
    \/ \E id \in {NodeIdOf(1), NodeIdOf(2)} : deleteNode(id) \/ updateNodeType(id, "decision")
    \/ deleteConnection(ConnectionIdOf(1))
    \/ clearAll
    \/ \E json \in GraphJsons : loadFromJSON(json)

SpecSelect == Init /\ [][NextSelect]_vars

\* the pointer positions of the clicks on empty canvas
ClickPoints == {<<0, 0>>, <<200, 100>>}

\* The click on empty canvas in every mode, with and without a node type chosen.
NextClick ==
    \/ \E mode \in Modes : setMode(mode)
    \/ \E type \in {"decision", "none"} : setSelectedNodeType(type)
    \/ \E p \in ClickPoints : canvasClick(p[1], p[2])
    \/ \E i \in 1..MaxNodeId : nodeClick(i)
    \/ \E json \in GraphJsons : loadFromJSON(json)

SpecClick == Init /\ [][NextClick]_vars

\* a section behind the first one, whose node, edge and question carry ids that the
\* first section uses too
OtherSection ==
    Section("flowchart-2",
            << NewNode(NodeIdOf(1), "end", 0, 0), NewNode(NodeIdOf(2), "start", 0, 0) >>,
            << NewConnection(ConnectionIdOf(1), NodeIdOf(1), NodeIdOf(2), "") >>,
            << NewQuestion(QuestionIdOf(1)) >>)

SectionJsons ==
    { VersionedJson(<< Section("flowchart-1", << NewNode(NodeIdOf(1), "process", 0, 0) >>,
                               <<>>, <<>>), OtherSection >>) }

\* The editing calls and the export on a diagram of two sections.
NextSections ==
    \/ \E json \in SectionJsons : loadFromJSON(json)
    \/ addNode("process", 0, 0)
    \/ deleteNode(NodeIdOf(1))
    \/ updateNodeText(NodeIdOf(1), "Edited")
    \/ addConnection(NodeIdOf(1), NodeIdOf(2), "")
    \/ deleteConnection(ConnectionIdOf(1))
    \/ clearAll
    \/ exportToJSON(0)

SpecSections == Init /\ [][NextSections]_vars

\* Nodes of every type, retyped, moved and edited; no load.  "note" is a type the
\* editor has no defaults for.
NextType ==
    \/ \E type \in {"start", "connector"} : addNode(type, 0, 0)
    \/ \E id \in {NodeIdOf(1), GhostNode}, type \in NodeTypes \cup {"note"} :
          updateNodeType(id, type)
    \/ updateNodePosition(NodeIdOf(1), 10, 20)
    \/ updateNodeText(NodeIdOf(1), "Edited")
    \/ updateNodeStatus(NodeIdOf(1), "approved")
    \/ updateNodeNotes(NodeIdOf(1), "note")

SpecType == Init /\ [][NextType]_vars

\* One session from a new editor: nodes made and deleted, the diagram cleared, exported
\* and reloaded from its own export.  Every node of this session was made by addNode.
NextSession ==
    \/ addNode("process", 0, 0)
    \/ \E id \in NodeIds : deleteNode(id)
    \/ clearAll
    \/ exportToJSON(0)
    \/ roundTrip(0)

SpecSession == Init /\ [][NextSession]_vars

\* the versioned payloads a caller builds, loads and keeps
KeptJsons ==
    { VersionedJson(<< Section("flowchart-1", nodes, <<>>, <<>>) >>) :
        nodes \in { <<>>, << NewNode(NodeIdOf(1), "process", 0, 0) >> } }

\* The caller loads a payload it keeps, and the model is edited afterwards.
NextOwn ==
    \/ \E json \in KeptJsons : loadKeptPayload(json)
    \/ addNode("process", 0, 0)
    \/ \E id \in {NodeIdOf(1), GhostNode} : deleteNode(id)
    \/ \E id \in {NodeIdOf(1), GhostNode} : updateNodeText(id, "Edited")
    \/ addConnection(NodeIdOf(1), NodeIdOf(2), "")
    \/ updateConnectionLabel(ConnectionIdOf(1), "yes")
    \/ clearAll

SpecOwn == Init /\ [][NextOwn]_vars

(***************************************************************************)
NodeIdsIn(d) == {Nodes(d)[i].id : i \in 1..Len(Nodes(d))}
ConnectionIdsIn(d) == {Connections(d)[i].id : i \in 1..Len(Connections(d))}
Touches(c, nodeId) == c.from = nodeId \/ c.to = nodeId

\* C1: right after deleteNode(id), whatever the state it was called in, no edge
\* of the model has id as its `from` or as its `to`.
C1_NoEdgeOfDeletedNode ==
    lastOp.op = "deleteNode" =>
        \A i \in 1..Len(Connections(data)) : ~Touches(Connections(data)[i], lastOp.id)

\* a deleteNode that found its node and removed edges with it
C1_Witness == lastOp.op = "deleteNode" /\ lastOp.hit /\ lastOp.n >= 1

\* C2: after any sequence of addNode and deleteNode calls on a new editor, the
\* ids of the nodes in the model are pairwise distinct.
C2_DistinctNodeIds ==
    \A i, j \in 1..Len(Nodes(data)) : i # j => Nodes(data)[i].id # Nodes(data)[j].id

\* an addNode after a deletion, with two nodes or more in the model
C2_Witness ==
    /\ lastOp.op = "addNode"
    /\ Len(Nodes(data)) >= 2
    /\ Len(Nodes(data)) < nextNodeId - 1

\* C3 as stated: after a load that succeeded, the id addNode issues next has a
\* number above the numeric suffix of every node id of the active section, and the
\* id addConnection issues next one above that of every connection id.
C3_AboveEverySuffix ==
    (lastOp.op = "loadFromJSON" /\ ~lastOp.threw) =>
        /\ \A id \in NodeIdsIn(data) : NumericSuffix(newNodeId) > NumericSuffix(id)
        /\ \A id \in ConnectionIdsIn(data) :
              NumericSuffix(newConnectionId) > NumericSuffix(id)

\* C3 amended: after a load that succeeded, the id addNode issues next has a number
\* above that of every node id of the form node-<n> in the active section, and the
\* id addConnection issues next one above that of every connection id of the form
\* conn-<n>; ids of another form count as 0.
C3_AboveEveryOwnSuffix ==
    (lastOp.op = "loadFromJSON" /\ ~lastOp.threw) =>
        /\ \A id \in NodeIdsIn(data) :
              id.pre = "node" => NumericSuffix(newNodeId) > NumericSuffix(id)
        /\ \A id \in ConnectionIdsIn(data) :
              id.pre = "conn" => NumericSuffix(newConnectionId) > NumericSuffix(id)

\* a load of sparse ids: node-1 is missing, and the next id follows the highest one
C3_Witness ==
    /\ lastOp.op = "loadFromJSON" /\ ~lastOp.threw
    /\ NodeIdOf(MaxNodeId - 1) \in NodeIdsIn(data)
    /\ NodeIdOf(1) \notin NodeIdsIn(data)
    /\ ConnectionIdOf(MaxConnectionId) \in ConnectionIdsIn(data)
    /\ newNodeId = NodeIdOf(MaxNodeId)
    /\ newConnectionId = ConnectionIdOf(MaxConnectionId + 1)

\* C4 as stated: a loadFromJSON that catches an error leaves the diagram data and
\* the three id counters as they were before the call.
C4_FailedLoadChangesNothing ==
    [][(lastOp'.op = "loadFromJSON" /\ lastOp'.threw) =>
          (data' = data /\ nextNodeId' = nextNodeId
           /\ nextConnectionId' = nextConnectionId /\ nextQuestionId' = nextQuestionId)]_vars

\* C5: loadFromJSON(exportToJSON()) leaves the active section with the same nodes,
\* edges and questions, equal by value and in the same order.
C5_RoundTripKeepsContents ==
    [][lastOp'.op = "roundTrip" =>
          (/\ Nodes(data') = Nodes(data)
           /\ Connections(data') = Connections(data)
           /\ Questions(data') = Questions(data))]_vars

\* a round trip of a model that has nodes and questions
C5_Witness ==
    /\ lastOp.op = "roundTrip" /\ ~lastOp.threw
    /\ Len(Nodes(data)) >= 2
    /\ Len(Questions(data)) >= 1

ModelMutations ==
    {"addNode", "deleteNode", "updateNodeText", "updateConnectionLabel",
     "addConnection", "clearAll"}

\* C6: the payload exportToJSON returned shares nothing with the model: a later
\* mutation of the model leaves the payload as it was, and an edit of the payload
\* leaves the model as it was.
C6_ExportIsIndependent ==
    [][/\ (payloadState # "none" /\ lastOp'.op \in ModelMutations) => payload' = payload
       /\ lastOp'.op = "editPayload" => data' = data]_vars

\* node-1 deleted from the model after the export, and still in the payload
C6_Witness ==
    /\ payloadState # "none"
    /\ lastOp.op = "deleteNode" /\ lastOp.hit
    /\ NodeIdOf(1) \notin NodeIdsIn(data)
    /\ NodeIdOf(1) \in NodeIdsIn(FromJson(payload))

\* C7: deleteNode(id) removes the nodes with that id and the edges that have id as
\* `from` or `to`, and nothing else: the other nodes and edges stay, unchanged and
\* in their order, and so does the rest of the diagram.
C7_DeleteNodeRemovesExactly ==
    [][(lastOp'.op = "deleteNode" /\ ~lastOp'.threw) =>
          (/\ Nodes(data') = SelectSeq(Nodes(data), LAMBDA n : n.id # lastOp'.id)
           /\ Connections(data') =
                 SelectSeq(Connections(data), LAMBDA c : ~Touches(c, lastOp'.id))
           /\ data' = WithConnections(WithNodes(data, Nodes(data')), Connections(data')))]_vars

\* one call removed a node and two edges, and another edge is still there
C7_Witness ==
    /\ lastOp.op = "deleteNode" /\ lastOp.hit /\ lastOp.n = 2
    /\ Len(Connections(data)) >= 1
    /\ Len(Nodes(data)) >= 1

NodeUpdates ==
    {"updateNodePosition", "updateNodeText", "updateNodeType", "updateNodeStatus",
     "updateNodeNotes"}
ConnectionUpdates ==
    {"updateConnectionLabel", "updateConnectionStyle", "updateConnectionStatus"}

C9_DeleteOfUnknownIdIsNoOp ==
    [][/\ (lastOp'.op = "deleteNode" /\ lastOp'.id \notin NodeIdsIn(data))
            => (Nodes(data') = Nodes(data) /\ Connections(data') = Connections(data))
       /\ (lastOp'.op = "deleteConnection" /\ lastOp'.id \notin ConnectionIdsIn(data))
            => data' = data]_vars

\* C9 amended: deleteNode(id) with an id that no node has leaves the node list as it
\* was and removes exactly the edges that have id as `from` or `to` (none, when no
\* edge names id); deleteConnection(id) with an id that no edge has changes nothing.
C9_DeleteOfUnknownIdKeepsOthers ==
    [][/\ (lastOp'.op = "deleteNode" /\ lastOp'.id \notin NodeIdsIn(data))
            => (/\ Nodes(data') = Nodes(data)
                /\ Connections(data') =
                      SelectSeq(Connections(data), LAMBDA c : ~Touches(c, lastOp'.id))
                /\ (\A i \in 1..Len(Connections(data)) :
                       ~Touches(Connections(data)[i], lastOp'.id))
                     => data' = data)
       /\ (lastOp'.op = "deleteConnection" /\ lastOp'.id \notin ConnectionIdsIn(data))
            => data' = data]_vars

\* a deleteNode that found no node and removed an edge that named its id
C9_Witness == lastOp.op = "deleteNode" /\ ~lastOp.hit /\ ~lastOp.threw /\ lastOp.n >= 1

\* C10 as stated: every edge of the model has a `from` and a `to` that are ids of
\* nodes in the node list.
C10_EdgesJoinLiveNodes ==
    \A i \in 1..Len(Connections(data)) :
        /\ Connections(data)[i].from \in NodeIdsIn(data)
        /\ Connections(data)[i].to \in NodeIdsIn(data)

\* C11: right after a mouseup over empty space no pending connection remains, so
\* that no later mouseup on a node can make an edge of the abandoned gesture.
C11_EmptyMouseUpDiscardsPending ==
    lastOp.op = "canvasMouseUp" => connectionInProgress = NoId

C13_ConnectGesture ==
    [][/\ (lastOp.op = "nodeMouseDown" /\ lastOp'.op = "nodeMouseUp"
            /\ currentMode = "connect") =>
             /\ connectionInProgress' = NoId
             /\ IF lastOp'.id # lastOp.id
                THEN /\ Len(Connections(data')) = Len(Connections(data)) + 1
                     /\ SubSeq(Connections(data'), 1, Len(Connections(data)))
                            = Connections(data)
                     /\ Connections(data')[Len(Connections(data'))].from = lastOp.id
                     /\ Connections(data')[Len(Connections(data'))].to = lastOp'.id
                ELSE Connections(data') = Connections(data)
       /\ (lastOp'.op \in {"nodeMouseDown", "nodeMouseUp"} /\ currentMode # "connect") =>
             /\ connectionInProgress' = connectionInProgress
             /\ Connections(data') = Connections(data)
      ]_vars

\* C14: at most one element carries the selection, and right after a click on a node
\* (an edge) the editor's selection, the canvas's selection and the one marked
\* element are exactly that node (that edge), whatever was selected before.
C14_SingleSelection ==
    /\ Cardinality(selectedMarks) <= 1
    /\ \A kind \in {"node", "connection"} :
          lastOp.op = kind \o "Click" =>
            /\ selectedElement = Mark(kind, lastOp.id)
            /\ canvasSelected = Mark(kind, lastOp.id)
            /\ selectedMarks = {Mark(kind, lastOp.id)}

\* an edge has just been clicked while a node was selected
C14_Witness ==
    lastOp.op = "connectionClick" /\ lastOp.hit /\ lastOp.n = 1
        /\ selectedMarks = {Mark("connection", lastOp.id)}

\* C15: a click on empty canvas in add mode with a node type chosen appends exactly
\* one node of that type at the click's coordinates and leaves the mode `select`; any
\* other click on empty canvas adds no node and leaves nothing selected.
C15_CanvasClick ==
    [][\A p \in ClickPoints :
          canvasClick(p[1], p[2]) =>
            IF currentMode = "add" /\ selectedNodeType # "none"
            THEN /\ Len(Nodes(data')) = Len(Nodes(data)) + 1
                 /\ SubSeq(Nodes(data'), 1, Len(Nodes(data))) = Nodes(data)
                 /\ Nodes(data')[Len(Nodes(data'))].type = selectedNodeType
                 /\ Nodes(data')[Len(Nodes(data'))].x = p[1]
                 /\ Nodes(data')[Len(Nodes(data'))].y = p[2]
                 /\ currentMode' = "select"
            ELSE /\ Nodes(data') = Nodes(data)
                 /\ selectedElement' = NoSelection
                 /\ canvasSelected' = NoSelection
                 /\ selectedMarks' = {}
      ]_vars

\* C16: updateNodeStatus(id, s) on an existing node leaves that node with status s,
\* whatever status it had; a node that addNode makes and an edge that addConnection
\* makes have status pending.
C16_AnyStatusTransition ==
    [][/\ \A id \in NodeIds \cup {GhostNode}, s \in Statuses :
            (updateNodeStatus(id, s) /\ findNodeById(data, id) # 0) =>
                /\ Nodes(data')[findNodeById(data, id)].metadata.status = s
                /\ lastOp'.hit /\ ~lastOp'.threw
       /\ (lastOp'.op = "addNode" /\ lastOp'.hit) =>
             Nodes(data')[Len(Nodes(data'))].metadata.status = "pending"
       /\ (lastOp'.op = "addConnection" /\ lastOp'.hit) =>
             Connections(data')[Len(Connections(data'))].metadata.status = "pending"
      ]_vars

\* a node has just gone from approved to rejected in one call
C16_Witness ==
    /\ lastOp.op = "updateNodeStatus" /\ lastOp.hit
    /\ lastOp.n = StatusNumber("approved")
    /\ Nodes(data)[findNodeById(data, lastOp.id)].metadata.status = "rejected"

\* C17: after the load of a legacy payload, section 0 holds exactly the payload's
\* nodes, connections and questions (an absent list being empty), and the title, the
\* description, the general notes and the number of sections are those of a new diagram.
C17_LegacyLoadIntoNewDiagram ==
    [][\A json \in LoadJsons :
          (loadFromJSON(json) /\ ~IsVersioned(json)) =>
              /\ HasCurrent(data')
              /\ Nodes(data') = OrEmpty(json.nodes)
              /\ Connections(data') = OrEmpty(json.connections)
              /\ Questions(data') = OrEmpty(json.questions)
              /\ data'.title = InitialData.title
              /\ data'.description = InitialData.description
              /\ data'.generalNotes = InitialData.generalNotes
              /\ Len(data'.flowcharts) = Len(InitialData.flowcharts)
      ]_vars

\* C18: in every state the scale of the viewport transform lies in [0.1, 4].
C18_ScaleWithinExtent ==
    RLessEq(MinScale, transform.k) /\ RLessEq(transform.k, MaxScale)

\* the bounding box of all node boxes
BoxLeft(d) == Min({Nodes(d)[i].x : i \in 1..Len(Nodes(d))})
BoxRight(d) == MaxOf({Nodes(d)[i].x + Nodes(d)[i].width : i \in 1..Len(Nodes(d))})
BoxTop(d) == Min({Nodes(d)[i].y : i \in 1..Len(Nodes(d))})
BoxBottom(d) == MaxOf({Nodes(d)[i].y + Nodes(d)[i].height : i \in 1..Len(Nodes(d))})

\* C19: fitToScreen with at least one node ends in the scale
\* min(W / (bw + 100), H / (bh + 100)) and in a translation that maps the centre of
\* the bounding box to the centre of the viewport; with no node the transform stays.
C19_FitToScreen ==
    [][fitToScreen =>
         IF Len(Nodes(data)) = 0 THEN transform' = transform
         ELSE /\ transform'.k = RMin(Rat(ViewWidth, BoxRight(data) - BoxLeft(data) + 100),
                                     Rat(ViewHeight, BoxBottom(data) - BoxTop(data) + 100))
              /\ RAdd(RMul(transform'.k, Rat(BoxLeft(data) + BoxRight(data), 2)),
                      transform'.x) = Rat(ViewWidth, 2)
              /\ RAdd(RMul(transform'.k, Rat(BoxTop(data) + BoxBottom(data), 2)),
                      transform'.y) = Rat(ViewHeight, 2)
      ]_vars

\* fitToScreen has just fitted two nodes or more to a scale other than 1
C19_Witness ==
    /\ lastOp.op = "fitToScreen" /\ lastOp.hit
    /\ Len(Nodes(data)) >= 2
    /\ transform = fitTransform(Nodes(data))
    /\ transform.k # R(1)

\* the source node's centre is level with the target node's and left of it
LevelAndLeftOf(s, t) ==
    /\ nodeCenter(s).y = nodeCenter(t).y
    /\ RLess(nodeCenter(s).x, nodeCenter(t).x)

\* C20: for two process nodes of equal size with the target's centre level with the
\* source's and to its right, the path starts at the middle of the source's right
\* side and ends at the middle of the target's left side; with centres (0, 0) and
\* (200, 0), width 120 and height 60, these are (60, 0) and (140, 0).
C20_HorizontalEdgeMidpoints ==
    LET s == lastPath.sourceNode
        t == lastPath.targetNode
    IN (/\ lastPath.drawn
        /\ s.type = "process" /\ t.type = "process"
        /\ s.width = t.width /\ s.height = t.height
        /\ LevelAndLeftOf(s, t)) =>
           /\ lastPath.source = Point(R(s.x + s.width), Rat(2 * s.y + s.height, 2))
           /\ lastPath.target = Point(R(t.x), Rat(2 * t.y + t.height, 2))
           /\ (/\ nodeCenter(s) = Point(R(0), R(0)) /\ nodeCenter(t) = Point(R(200), R(0))
               /\ s.width = 120 /\ s.height = 60) =>
                  /\ lastPath.source = Point(R(60), R(0))
                  /\ lastPath.target = Point(R(140), R(0))

\* the path between process nodes centred at (0, 0) and (200, 0) has been drawn
C20_Witness ==
    /\ lastPath.drawn
    /\ lastPath.sourceNode.type = "process" /\ lastPath.targetNode.type = "process"
    /\ nodeCenter(lastPath.sourceNode) = Point(R(0), R(0))
    /\ nodeCenter(lastPath.targetNode) = Point(R(200), R(0))
    /\ lastPath.sourceNode.width = 120 /\ lastPath.sourceNode.height = 60
    /\ lastPath.targetNode.width = 120 /\ lastPath.targetNode.height = 60

\* an edge one of whose two ends names no node of d
Dangling(d, c) == findNodeById(d, c.from) = 0 \/ findNodeById(d, c.to) = 0

\* C21 as stated: a call that draws or redraws an edge (addConnection renders it,
\* updateConnectionLabel with a label that is not empty redraws its label) whose
\* `from` or `to` names no node draws nothing and raises no exception.
C21_DanglingEdgeSilentlySkipped ==
    [][ (/\ lastOp'.op \in {"addConnection", "updateConnectionLabel"}
         /\ HasCurrent(data') /\ lastOp'.hit
         /\ LET c == Connections(data')[findConnectionById(data', lastOp'.id)]
            IN Dangling(data', c)
               /\ (lastOp'.op = "updateConnectionLabel" => c.label # ""))
        => (connectionsGroup' = connectionsGroup /\ ~lastOp'.threw) ]_vars

\* C22 as stated: addConnection(fromId, toId) validates nothing; for every pair of
\* ids, equal ids and ids of no node included, it appends exactly one edge with those
\* ends, style solid and a conn-<n> id that no edge of the model has, and returns it;
\* the nodes and the edges there were stay as they are.
C22_AddConnectionValidatesNothing ==
    [][ \A from \in GraphEndpoints, to \in GraphEndpoints :
          addConnection(from, to, "") =>
            /\ ~lastOp'.threw
            /\ HasCurrent(data) /\ HasCurrent(data')
            /\ Connections(data') =
                   Append(Connections(data), NewConnection(lastOp'.id, from, to, ""))
            /\ Connections(data')[Len(Connections(data'))].style = "solid"
            /\ MatchNumber(lastOp'.id, "conn") # 0
            /\ lastOp'.id \notin ConnectionIdsIn(data)
            /\ Nodes(data') = Nodes(data) ]_vars

\* the sections behind the first one
LaterSections(d) == IF HasCurrent(d) THEN Tail(d.flowcharts) ELSE <<>>

EditorMutations ==
    {"addNode", "deleteNode", "updateNodePosition", "updateNodeText", "updateNodeType",
     "updateNodeStatus", "updateNodeNotes", "addConnection", "updateConnectionLabel",
     "updateConnectionStyle", "updateConnectionStatus", "deleteConnection", "clearAll"}

\* C23: the editing calls read and write the first section alone: no such call
\* changes a section at index 1 or higher, and an export returns those sections as
\* they are in the model.
C23_OnlyFirstSection ==
    [][ /\ lastOp'.op \in EditorMutations => LaterSections(data') = LaterSections(data)
        /\ lastOp'.op = "exportToJSON" =>
              /\ LaterSections(data') = LaterSections(data)
              /\ Tail(payload'.flowcharts.items) = LaterSections(data) ]_vars

\* an export of a diagram of two sections whose first section was emptied after the
\* load, while the second one still holds its nodes
C23_Witness ==
    /\ lastOp.op = "exportToJSON"
    /\ Len(data.flowcharts) = 2
    /\ Nodes(data) = <<>>
    /\ Len(payload.flowcharts.items) = 2
    /\ payload.flowcharts.items[2] = OtherSection

\* width, height and background colour of a node are the defaults of its type
HasDefaultsOfType(n) ==
    /\ n.width = getDefaultNodeSize(n.type).width
    /\ n.height = getDefaultNodeSize(n.type).height
    /\ n.style.backgroundColor = getDefaultNodeColor(n.type)

\* C24: after addNode and the node updates every node has the width, height and
\* background colour of its current type, and updateNodeType on a node leaves its
\* id, text, position and metadata, and every other node, as they were.
C24_SizeAndColourFollowType ==
    [][ /\ \A i \in 1..Len(Nodes(data')) : HasDefaultsOfType(Nodes(data')[i])
        /\ (lastOp'.op = "updateNodeType" /\ lastOp'.hit) =>
              LET i == findNodeById(data, lastOp'.id)
                  was == Nodes(data)[i]
                  now == Nodes(data')[i]
              IN /\ Len(Nodes(data')) = Len(Nodes(data))
                 /\ \A k \in 1..Len(Nodes(data)) : k # i => Nodes(data')[k] = Nodes(data)[k]
                 /\ now.id = was.id /\ now.text = was.text
                 /\ now.x = was.x /\ now.y = was.y
                 /\ now.metadata = was.metadata ]_vars

\* node-1, made as a start node, then edited and moved, was given the type decision
C24_Witness ==
    /\ lastOp.op = "updateNodeType" /\ lastOp.hit
    /\ Len(Nodes(data)) >= 2
    /\ Nodes(data)[1].type = "decision" /\ Nodes(data)[1].width = 100
    /\ Nodes(data)[1].height = 80
    /\ Nodes(data)[1].text = "Edited" /\ Nodes(data)[1].x = 10
    /\ Nodes(data)[1].metadata.status = "approved"

\* the ids of the edge elements on the canvas
DrawnConnections == {connectionsGroup[i] : i \in 1..Len(connectionsGroup)}

\* the ids of the model's edges whose two ends name nodes
ResolvedConnections(d) ==
    {Connections(d)[i].id : i \in {k \in 1..Len(Connections(d)) : ~Dangling(d, Connections(d)[k])}}

\* C25 as stated: after every editor operation that returned, the edge elements on
\* the canvas are those of the model's edges whose two ends resolve; no edge that
\* left the model, by a deleteNode cascade or otherwise, is still drawn.
C25_CanvasShowsModelEdges ==
    (/\ lastOp.op \in {"addNode", "deleteNode", "addConnection", "deleteConnection",
                       "updateNodeType", "clearAll", "loadFromJSON"}
     /\ ~lastOp.threw)
    => DrawnConnections = ResolvedConnections(data)

\* C26 as stated: whenever the editor's selection is not null it names a node or an
\* edge that is in the model.
C26_SelectionIsInModel ==
    /\ selectedElement.kind = "node" => selectedElement.id \in NodeIdsIn(data)
    /\ selectedElement.kind = "connection" => selectedElement.id \in ConnectionIdsIn(data)

\* C27 as stated: the editor's selection slot and the canvas's selection slot agree:
\* both are null, or both name the element of the same kind and id.
C27_SelectionSlotsAgree == selectedElement = canvasSelected

\* the node ids in the first section of a payload
PayloadNodeIds(json) ==
    IF json.flowcharts.present /\ Len(json.flowcharts.items) > 0
    THEN {json.flowcharts.items[1].nodes[i].id : i \in 1..Len(json.flowcharts.items[1].nodes)}
    ELSE {}

\* C28 as stated: within one session addNode never returns an id that an earlier
\* addNode returned.  The nodes of an export taken earlier in the session were all
\* made by earlier addNode calls, and the nodes of the model too, so the id addNode
\* returns is the id of no node of the model and of no node of the held export.
C28_NoNodeIdReturnedTwice ==
    [][ (lastOp'.op = "addNode" /\ ~lastOp'.threw) =>
            /\ lastOp'.id \notin NodeIdsIn(data)
            /\ payloadState = "own" => lastOp'.id \notin PayloadNodeIds(payload) ]_vars

\* C29 as stated: once loadFromJSON(payload) has run the model owns its data alone: no
\* later editing call changes the object the caller passed in and kept.
C29_LoadedPayloadStaysAsPassed ==
    [][ (payloadState # "none" /\ lastOp'.op \in EditorMutations) => payload' = payload ]_vars

\* C30 as stated: the canvas shows at most one preview line, it shows one exactly when
\* a connection is pending, and the editor's and the canvas's pending-connection
\* slots are both set or both empty.
C30_OnePreviewLineWhilePending ==
    /\ previewLines <= 1
    /\ previewLines = 1 <=> connectionInProgress # NoId
    /\ connectionInProgress # NoId <=> canvasPending # NoId
====
